---- MODULE Spec2Model ----
(***************************************************************************)
(* The normalization engine of the AR Food Viewer (src/app.js): the 'load' *)
(* listener of initNormalization, the requestAnimationFrame callback it    *)
(* schedules, and normalizeModel with its two orientation helpers.         *)
(*                                                                         *)
(* Numbers.  Lengths are whole centimetres, so TARGET_HEIGHT = 0.08 m is   *)
(* 8.  A scale candidate is a JavaScript number; it is kept here as an     *)
(* exact value [num, den, root] that stands for (num/den)^(1/root), with   *)
(* den = 0 for +Infinity (what x/0 gives for x > 0), so that Math.min,     *)
(* Math.max and toFixed(6) are computed on the value itself.  The string   *)
(* toFixed(6) returns is kept as the integer it spells with the decimal    *)
(* point removed ("0.400000" is 400000); "Infinity" is kept as a string.   *)
(* The rounding error of IEEE doubles (below 1e-15 relative) is not        *)
(* modelled.  TLC's integers are 32 bits wide, so the products that decide *)
(* a comparison of two candidates are formed on digit sequences.           *)
(***************************************************************************)
EXTENDS Integers, Sequences, FiniteSets, TLC

\* ------------------------------------------------------------------ bounds

\* The number of load-complete signals the viewer sends in one behaviour.
MaxLoads == 2

\* The side lengths (cm) a measured bounding box is drawn from: zero, a side
\* so small that every candidate exceeds 5.0 (1), a side whose candidate needs
\* rounding at the sixth decimal (3), ordinary sides (5, 20) and a side so
\* large that a candidate falls below 0.01 (1000).
Dims == {0, 1, 3, 5, 20, 1000}

Boxes == Dims \X Dims \X Dims

\* getDimensions() returning nothing, an attribute never set, a local never assigned.
None == <<>>

\* ------------------------------------------------- arithmetic on naturals

\* A natural number as its digits in base 10000, least significant first.
RECURSIVE BigOf(_)
BigOf(n) == IF n < 10000 THEN <<n>> ELSE <<n % 10000>> \o BigOf(n \div 10000)

RECURSIVE BigTrim(_)
BigTrim(a) ==
    IF Len(a) > 1 /\ a[Len(a)] = 0 THEN BigTrim(SubSeq(a, 1, Len(a) - 1)) ELSE a

RECURSIVE BigAddC(_, _, _)
BigAddC(a, b, c) ==
    IF a = <<>> /\ b = <<>>
    THEN IF c = 0 THEN <<>> ELSE <<c>>
    ELSE LET x == IF a = <<>> THEN 0 ELSE Head(a)
             y == IF b = <<>> THEN 0 ELSE Head(b)
             s == x + y + c
         IN  <<s % 10000>> \o BigAddC(IF a = <<>> THEN a ELSE Tail(a),
                                      IF b = <<>> THEN b ELSE Tail(b),
                                      s \div 10000)

BigAdd(a, b) == BigTrim(BigAddC(a, b, 0))

RECURSIVE BigMulDigit(_, _, _)
BigMulDigit(a, k, c) ==
    IF a = <<>>
    THEN IF c = 0 THEN <<>> ELSE <<c>>
    ELSE LET p == Head(a) * k + c
         IN  <<p % 10000>> \o BigMulDigit(Tail(a), k, p \div 10000)

RECURSIVE BigMul(_, _)
BigMul(a, b) ==
    IF b = <<>>
    THEN <<0>>
    ELSE BigAdd(BigMulDigit(a, Head(b), 0), <<0>> \o BigMul(a, Tail(b)))

RECURSIVE BigLeqAt(_, _, _)
BigLeqAt(a, b, i) ==
    IF i = 0 THEN TRUE
    ELSE IF a[i] # b[i] THEN a[i] < b[i]
    ELSE BigLeqAt(a, b, i - 1)

BigLeq(a, b) ==
    LET x == BigTrim(a)
        y == BigTrim(b)
    IN  IF Len(x) # Len(y) THEN Len(x) < Len(y) ELSE BigLeqAt(x, y, Len(x))

BigCube(n) == BigMul(BigOf(n), BigMul(BigOf(n), BigOf(n)))

\* ------------------------------------------------ JavaScript number values

\* The target size of a food model, in centimetres (0.08 m).
TARGET_HEIGHT == 8
TARGET_WIDTH == 8

\* TARGET_VOLUME with the third factor forgotten.
TARGET_VOLUME_twoFactors == TARGET_HEIGHT * TARGET_WIDTH

\* Target volume derived from a bounding box of TARGET x TARGET x TARGET.
TARGET_VOLUME == TARGET_HEIGHT * TARGET_WIDTH * TARGET_HEIGHT

\* The number of digits toFixed keeps after the decimal point.
ScaleDigits == 6

\* 10^ScaleDigits: the integer that spells 1.000000.
RECURSIVE Pow10(_)
Pow10(k) == IF k = 0 THEN 1 ELSE 10 * Pow10(k - 1)

One == Pow10(ScaleDigits)

\* The literals 0.01 and 5.0 of the safety clamp.
ClampFloor == [num |-> 1, den |-> 100, root |-> 1]
ClampCeiling == [num |-> 5, den |-> 1, root |-> 1]

\* Divide with a guard that answers 0 for a zero divisor.
Divide_zeroForZeroDivisor(x, y) ==
    IF y = 0 THEN [num |-> 0, den |-> 1, root |-> 1] ELSE [num |-> x, den |-> y, root |-> 1]

\* x / y of two non-negative numbers with x > 0: the quotient, +Infinity when y = 0.
Divide(x, y) == [num |-> x, den |-> y, root |-> 1]

\* Math.cbrt of a quotient.
MathCbrt(q) == [q EXCEPT !.root = 3]

IsInfinite(v) == v.den = 0

\* n^3 as a digit sequence (formed in machine integers while it fits them).
CubeOf(n) == IF n < 1290 THEN BigOf(n * n * n) ELSE BigCube(n)

\* The cube of a finite value, as numerator and denominator.
Cubed(v) ==
    IF v.root = 1
    THEN [n |-> CubeOf(v.num), d |-> CubeOf(v.den)]
    ELSE [n |-> BigOf(v.num), d |-> BigOf(v.den)]

\* a <= b on number values: two quotients by cross-multiplication, and a cube
\* root against anything by the cubes (cubing is monotone on numbers >= 0).
Leq(a, b) ==
    IF IsInfinite(b) THEN TRUE
    ELSE IF IsInfinite(a) THEN FALSE
    ELSE IF a.root = 1 /\ b.root = 1 /\ a.num < 32768 /\ a.den < 32768
            /\ b.num < 32768 /\ b.den < 32768
    THEN a.num * b.den <= b.num * a.den
    ELSE BigLeq(BigMul(Cubed(a).n, Cubed(b).d), BigMul(Cubed(b).n, Cubed(a).d))

MathMin2(a, b) == IF Leq(a, b) THEN a ELSE b

MathMax2(a, b) == IF Leq(a, b) THEN b ELSE a

MathMin3(a, b, c) == MathMin2(MathMin2(a, b), c)

\* The value n - 1/2 in units of 10^-ScaleDigits: v rounds to n or more iff it is at least this.
RoundsTo(n) == [num |-> 2 * n - 1, den |-> 2 * One, root |-> 1]

\* The largest n in lo .. hi - 1 that v rounds up to, given that v rounds to lo
\* or more and to less than hi.
RECURSIVE Nearest(_, _, _)
Nearest(v, lo, hi) ==
    IF hi = lo + 1 THEN lo
    ELSE LET mid == (lo + hi) \div 2
         IN  IF Leq(RoundsTo(mid), v) THEN Nearest(v, mid, hi) ELSE Nearest(v, lo, mid)

\* Number.prototype.toFixed(6): the decimal string of the nearest multiple of
\* 10^-6 (the larger of two equally near), as the integer it spells.
ToFixed6(v) ==
    IF IsInfinite(v) THEN "Infinity"
    ELSE IF v.root = 1 THEN (2 * v.num * One + v.den) \div (2 * v.den)
    ELSE Nearest(v, 0, 16 * One)

\* ------------------------------------------------------- normalizeModel

\* rawZ_isTallest with >= for >.
rawZ_isTallest_orEqual(w, h, d) == d >= h /\ d >= w

\* Orientation helper: is Z the tallest axis?
rawZ_isTallest(w, h, d) == d > h /\ d > w

\* Orientation helper: is X the tallest axis?
rawX_isTallest(w, h, d) == w > h /\ w > d

\* IsUnmeasurable without the all-zero test.
IsUnmeasurable_missingOnly(dims) == dims = None

\* The guard of step 1: no dimensions, or an all-zero bounding box.
IsUnmeasurable(dims) == dims = None \/ (dims[1] = 0 /\ dims[2] = 0 /\ dims[3] = 0)

\* Step 2: the orientation correction (orientX, orientY, orientZ) and the
\* effective (width, height, depth) after it, for raw (x, y, z).
AutoOrient(dims) ==
    LET rawW == dims[1]
        rawH == dims[2]
        rawD == dims[3]
    IN  IF rawZ_isTallest(rawW, rawH, rawD)
        THEN [orient |-> <<-90, 0, 0>>, effective |-> <<rawW, rawD, rawH>>]
        ELSE IF rawX_isTallest(rawW, rawH, rawD)
        THEN [orient |-> <<0, 0, 90>>, effective |-> <<rawH, rawW, rawD>>]
        ELSE [orient |-> <<0, 0, 0>>, effective |-> <<rawW, rawH, rawD>>]

\* Steps 3 to 5: the three candidates, on the effective dimensions.
ScaleByHeight(eff) == Divide(TARGET_HEIGHT, eff[2])

ScaleByWidth(eff) == Divide(TARGET_WIDTH, eff[1])

CurrentVolume(eff) == eff[1] * eff[2] * eff[3]

ScaleByVolume(eff) == MathCbrt(Divide(TARGET_VOLUME, CurrentVolume(eff)))

\* MostRestrictive without the width candidate.
MostRestrictive_noWidth(eff) == MathMin2(ScaleByHeight(eff), ScaleByVolume(eff))

\* The most restrictive uniform scale.
MostRestrictive(eff) == MathMin3(ScaleByHeight(eff), ScaleByWidth(eff), ScaleByVolume(eff))

\* SafetyClamp without the floor.
SafetyClamp_noFloor(finalScale) == MathMin2(finalScale, ClampCeiling)

\* Safety clamp: never scale below 1% or above 500%.
SafetyClamp(finalScale) == MathMax2(ClampFloor, MathMin2(finalScale, ClampCeiling))

\* The string s that step 6 writes three times.
FinalScale(eff) == ToFixed6(SafetyClamp(MostRestrictive(eff)))

\* AttributeWrites with the scale written first.
AttributeWrites_scaleFirst(orient, s) == << <<"scale", <<s, s, s>>>>, <<"orientation", orient>> >>

\* The setAttribute calls of one run that gets past step 1, in program order.
AttributeWrites(orient, s) == << <<"orientation", orient>>, <<"scale", <<s, s, s>>>> >>

\* The effects of one run of normalizeModel on dimensions dims.
RunEffects(dims) ==
    IF IsUnmeasurable(dims)
    THEN << <<"warn">> >>
    ELSE AttributeWrites(AutoOrient(dims).orient, FinalScale(AutoOrient(dims).effective))

\* The value of attribute name after the effects fx, old being its value before.
RECURSIVE AttributeAfter(_, _, _)
AttributeAfter(name, fx, old) ==
    IF fx = <<>> THEN old
    ELSE AttributeAfter(name, Tail(fx), IF Head(fx)[1] = name THEN Head(fx)[2] ELSE old)

\* ---------------------------------------------------------------- state

VARIABLES
    modelDims,    \* what modelViewer.getDimensions() returns now
    loadGen,      \* the number of 'load' events dispatched so far
    rafQueue,     \* the pending requestAnimationFrame callbacks, each with the load that scheduled it
    runGen,       \* the load whose callback ran normalizeModel last (0: none yet)
    phase,        \* Idle, Measuring (a load was signalled), Normalized or Skipped (how the last run ended)
    dimensions,   \* the local `dimensions` of the last run
    effective,    \* the locals effectiveW, effectiveH, effectiveD of the last run
    orientation,  \* the viewer's orientation attribute, as (x, y, z) degrees
    scale,        \* the viewer's scale attribute, as three toFixed(6) strings
    effects       \* console.warn and setAttribute calls of the last run, in order

vars == <<modelDims, loadGen, rafQueue, runGen, phase, dimensions, effective,
          orientation, scale, effects>>

Init ==
    /\ modelDims = None
    /\ loadGen = 0
    /\ rafQueue = <<>>
    /\ runGen = 0
    /\ phase = "Idle"
    /\ dimensions = None
    /\ effective = None
    /\ orientation = None
    /\ scale = None
    /\ effects = <<>>

\* The viewer finishes loading an asset whose bounding box is box (None: it
\* cannot be measured) and dispatches 'load'; the listener schedules one
\* animation-frame callback.
Load(box) ==
    /\ loadGen < MaxLoads
    /\ modelDims' = box
    /\ loadGen' = loadGen + 1
    /\ rafQueue' = Append(rafQueue, loadGen + 1)
    /\ phase' = "Measuring"
    /\ UNCHANGED <<runGen, dimensions, effective, orientation, scale, effects>>

\* The oldest pending animation-frame callback runs normalizeModel to its end.
AnimationFrame ==
    LET fx == RunEffects(modelDims)
    IN  /\ rafQueue # <<>>
        /\ rafQueue' = Tail(rafQueue)
        /\ runGen' = Head(rafQueue)
        /\ dimensions' = modelDims
        /\ effects' = fx
        /\ orientation' = AttributeAfter("orientation", fx, orientation)
        /\ scale' = AttributeAfter("scale", fx, scale)
        /\ IF IsUnmeasurable(modelDims)
           THEN phase' = "Skipped" /\ effective' = None
           ELSE phase' = "Normalized" /\ effective' = AutoOrient(modelDims).effective
        /\ UNCHANGED <<modelDims, loadGen>>

Next ==
    \/ \E box \in Boxes \cup {None} : Load(box)
    \/ AnimationFrame

Spec == Init /\ [][Next]_vars

\* ------------------------------------------------------------ the claims

\* The last run of normalizeModel got past step 1 and wrote to the viewer.
Wrote == effective # None

Positive(dims) == dims[1] > 0 /\ dims[2] > 0 /\ dims[3] > 0

ZeroCount(dims) == Cardinality({i \in 1..3 : dims[i] = 0})

Largest(dims) == CHOOSE m \in {dims[1], dims[2], dims[3]} :
                     \A i \in 1..3 : dims[i] <= m

\* The axes on which the box is as large as it gets.
LargestAxes(dims) == {i \in 1..3 : dims[i] = Largest(dims)}

\* The scale 0.01 and the scale 5.0 as toFixed(6) spells them.
FloorText == One \div 100
CeilingText == 5 * One

\* x / y rounded to six decimals, for y > 0.
Rounded(x, y) == (2 * x * One + y) \div (2 * y)

ClampText(n) == IF n < FloorText THEN FloorText ELSE IF n > CeilingText THEN CeilingText ELSE n

SmallestOf(S) == CHOOSE n \in S : \A k \in S : n <= k

\* C1: for a box that is not all-zero, depth strictly largest gives orientation
\* (-90, 0, 0) and effective (width, depth, height); else width strictly
\* largest gives (0, 0, 90) and effective (height, width, depth); otherwise
\* (0, 0, 0) and the raw dimensions. So the orientation is one of these three
\* triples, and a tie for the largest dimension selects no rotation.
C1_OrientationPrecedence ==
    Wrote =>
        LET w == dimensions[1]
            h == dimensions[2]
            d == dimensions[3]
        IN  /\ (d > h /\ d > w) =>
                   orientation = <<-90, 0, 0>> /\ effective = <<w, d, h>>
            /\ (~(d > h /\ d > w) /\ w > h /\ w > d) =>
                   orientation = <<0, 0, 90>> /\ effective = <<h, w, d>>
            /\ (~(d > h /\ d > w) /\ ~(w > h /\ w > d)) =>
                   orientation = <<0, 0, 0>> /\ effective = <<w, h, d>>
            /\ orientation \in {<<-90, 0, 0>>, <<0, 0, 90>>, <<0, 0, 0>>}
            /\ Cardinality(LargestAxes(dimensions)) >= 2 => orientation = <<0, 0, 0>>

\* C1 witness: width and depth tie for the largest side, and nothing is rotated.
C1_Witness ==
    /\ Wrote
    /\ dimensions = <<20, 5, 20>>
    /\ orientation = <<0, 0, 0>>
    /\ effective = <<20, 5, 20>>

\* C2: for a box with at least one non-zero side (zero sides included), the
\* scale written is one value repeated on the three axes, within [0.01, 5.0].
C2_ScaleUniformInRange ==
    Wrote =>
        /\ Len(scale) = 3
        /\ scale[1] = scale[2] /\ scale[2] = scale[3]
        /\ FloorText <= scale[1] /\ scale[1] <= CeilingText

\* C2 witness: a box with two zero sides got a uniform scale in the range.
C2_Witness ==
    /\ Wrote
    /\ ZeroCount(dimensions) = 2
    /\ scale = <<scale[1], scale[1], scale[1]>>
    /\ FloorText < scale[1] /\ scale[1] < CeilingText

\* C3: a run that measures (0, 0, 0), or gets no measurement, ends Skipped: it
\* reports a warning and writes neither orientation nor scale, which keep the
\* values they had.
C3_SkipLeavesViewer ==
    [][(runGen' # runGen /\ (modelDims = None \/ modelDims = <<0, 0, 0>>)) =>
          /\ phase' = "Skipped"
          /\ effects' = << <<"warn">> >>
          /\ orientation' = orientation
          /\ scale' = scale]_vars

\* C3 witness: a run on an all-zero box ended Skipped with a warning, and the
\* viewer still has the orientation and scale of the asset before.
C3_Witness ==
    /\ phase = "Skipped"
    /\ dimensions = <<0, 0, 0>>
    /\ effects = << <<"warn">> >>
    /\ orientation = <<0, 0, 90>>
    /\ scale = <<400000, 400000, 400000>>

\* C4: a normalization whose load was superseded before its animation-frame
\* callback ran never writes: every run that writes orientation and scale is
\* the run of the most recent load.
C4_OnlyLatestLoadWrites ==
    [][(runGen' # runGen /\ phase' = "Normalized") => runGen' = loadGen']_vars

C6_ZeroSideYieldsFloor ==
    (Wrote /\ ZeroCount(dimensions) \in {1, 2}) =>
        scale = <<FloorText, FloorText, FloorText>>

\* C6 as amended: when exactly one or two raw dimensions are zero, the
\* candidates that divide by zero are +Infinity and are not replaced; the
\* minimum passes over them, and the final scale is the smallest finite
\* candidate (target height / effective height, target width / effective
\* width) clamped to [0.01, 5.0] and rounded to six decimals.
C6_ZeroSidePassedOver ==
    (Wrote /\ ZeroCount(dimensions) \in {1, 2}) =>
        LET finite ==
                (IF effective[2] > 0 THEN {Rounded(TARGET_HEIGHT, effective[2])} ELSE {})
                \cup (IF effective[1] > 0 THEN {Rounded(TARGET_WIDTH, effective[1])} ELSE {})
        IN  /\ finite # {}
            /\ scale = <<ClampText(SmallestOf(finite)), ClampText(SmallestOf(finite)),
                         ClampText(SmallestOf(finite))>>

\* C6 witness: a flat box 20 cm high with zero width gets 0.4, not 0.01.
C6_Witness ==
    /\ Wrote
    /\ dimensions = <<0, 20, 5>>
    /\ scale = <<400000, 400000, 400000>>

\* C7: after a run has ended Normalized or Skipped, no orientation or scale is
\* written until a new load-complete signal arrives: from a terminal phase the
\* next step is never a run that writes.
C7_NoWriteAfterTerminal ==
    [][(phase \in {"Normalized", "Skipped"}) =>
          ~(runGen' # runGen /\ phase' = "Normalized")]_vars

\* The effective dimensions of C8: the strictly largest of depth and width
\* (depth first) becomes the height.
PostRotation(dims) ==
    IF LargestAxes(dims) = {3} THEN <<dims[1], dims[3], dims[2]>>
    ELSE IF LargestAxes(dims) = {1} THEN <<dims[2], dims[1], dims[3]>>
    ELSE dims

\* C8: for a box with all sides positive, the final scale is
\* clamp(min(targetHeight / effH, targetWidth / effW,
\*           cbrt(targetHeight x targetWidth x targetHeight / (effW x effH x effD))),
\*       0.01, 5.0)
\* on the post-rotation dimensions; a box whose three candidates exceed 5.0
\* gets exactly 5.0, and (0.05, 0.20, 0.05) gets 0.4.
C8_FinalScaleFormula ==
    (Wrote /\ Positive(dimensions)) =>
        LET e == PostRotation(dimensions)
            byHeight == Divide(TARGET_HEIGHT, e[2])
            byWidth == Divide(TARGET_WIDTH, e[1])
            byVolume == MathCbrt(Divide(TARGET_HEIGHT * TARGET_WIDTH * TARGET_HEIGHT,
                                        e[1] * e[2] * e[3]))
            least == MathMin3(byHeight, byWidth, byVolume)
            clamped == IF Leq(least, ClampFloor) THEN ClampFloor
                       ELSE IF Leq(ClampCeiling, least) THEN ClampCeiling
                       ELSE least
        IN  /\ scale[1] = ToFixed6(clamped)
            /\ (Leq(ClampCeiling, byHeight) /\ Leq(ClampCeiling, byWidth)
                   /\ Leq(ClampCeiling, byVolume)) => scale[1] = CeilingText
            /\ dimensions = <<5, 20, 5>> => scale[1] = 4 * (One \div 10)

\* C8 witness: the already-tall box (0.05, 0.20, 0.05) got 0.4 on every axis.
C8_Witness ==
    /\ Wrote
    /\ dimensions = <<5, 20, 5>>
    /\ scale = <<400000, 400000, 400000>>

\* C10: a run writes both the orientation and the scale, orientation first,
\* or neither; after a run that wrote, the viewer holds the orientation and
\* the scale of that same run.
C10_BothOrNeitherInOrder ==
    /\ \/ effects = <<>>
       \/ effects = << <<"warn">> >>
       \/ /\ Len(effects) = 2
          /\ effects[1][1] = "orientation"
          /\ effects[2][1] = "scale"
          /\ orientation = effects[1][2]
          /\ scale = effects[2][2]
    /\ (orientation = None) <=> (scale = None)
    /\ Wrote <=> Len(effects) = 2

\* C10 witness: a run wrote the orientation, then the scale.
C10_Witness ==
    /\ Wrote
    /\ effects = << <<"orientation", <<-90, 0, 0>>>>, <<"scale", <<1600000, 1600000, 1600000>>>> >>
    /\ orientation = <<-90, 0, 0>>
    /\ scale = <<1600000, 1600000, 1600000>>

====
